---- MODULE Spec2Model ----
(***************************************************************************)
(* A model of arcade/tiled.py: the colour codec (_parse_color), the layer  *)
(* data decoders (_decode_csv_layer, _decode_base64_data), the external    *)
(* tile set cache (_parse_external_tile_set under functools.lru_cache) and *)
(* the tile set table built by parse_tile_map, with the global-id lookup   *)
(* sketched in the note that ends the module.                              *)
(*                                                                         *)
(* Python strings are sequences of one-character strings, bytes are        *)
(* sequences of 0..255, a raised exception is a result whose error field   *)
(* names the exception class.                                              *)
(***************************************************************************)
EXTENDS Integers, Sequences, FiniteSets, TLC

VARIABLES
    \* _parse_color: the argument and the outcome of the call
    color_in, color_out,
    \* _decode_csv_layer: the argument and the outcome of the call
    csv_in, csv_out,
    \* _decode_base64_data: the arguments, the position in the function
    \* (pc: "start", "loop", "done"), its locals and the outcome
    data_text, compression, layer_width,
    pc, unzipped_data, pos,
    tile_grid, byte_count, int_count, int_value, row_count,
    b64_out,
    \* what data_text was encoded from: the integers and the 0..3 bytes
    \* that follow them
    src_ints, src_tail,
    \* the lru_cache of _parse_external_tile_set: its entries, least recently
    \* used first
    cache,
    \* how many times each external file has been read and parsed
    parse_count,
    \* the next fresh object identity: of an Element, of a TileSet
    next_elem, next_inst,
    \* every tile set element handed to a parser so far, with the TileSet
    \* it got
    resolved,
    \* tile_sets of the map parsed last: the dict's items in insertion order
    tile_sets,
    \* the outcome of the last lookup of a global id in tile_sets
    found,
    \* parse_tile_map: the tile set elements of the document parsed last
    tile_set_element_list,
    \* _parse_properties_element: the property elements of the argument,
    \* whether the interpreter runs with assert statements compiled out
    \* (python -O), and the outcome of the call
    props_in, optimize, props_out,
    \* parse_tile_map, the layers: the top-level elements of the document
    \* and the outcome of the loop over them
    top_elements, layers_out,
    \* the threads that call _parse_external_tile_set at the same time
    threads

colorVars == <<color_in, color_out>>
csvVars == <<csv_in, csv_out>>
b64Args == <<data_text, compression, layer_width, src_ints, src_tail>>
b64Locals == <<unzipped_data, pos, tile_grid, byte_count, int_count,
               int_value, row_count>>
b64Vars == <<b64Args, pc, b64Locals, b64_out>>
catalogVars == <<cache, parse_count, next_elem, next_inst, resolved>>
mapVars == <<catalogVars, tile_sets, found, tile_set_element_list>>
propVars == <<props_in, optimize, props_out>>
layerVars == <<top_elements, layers_out>>
extVars == <<propVars, layerVars, threads>>
vars == <<colorVars, csvVars, b64Vars, mapVars, extVars>>

(***************************************************************************)
(* Bounds of the model.                                                    *)
(***************************************************************************)
MaxHexLen == 8
MaxCsvLen == 6
MaxInts == 4
MaxWidth == 2
MaxRefs == 3
MaxProps == 2
MaxTop == 3
MaxThreads == 2
MaxGid == 4

HexSample == {"0", "a", "F"}
CsvSample == {"1", "2", ",", "\n"}
\* 0, 0x04030201 and 0x7FFFFFFF (the model checker's integers end there; the
\* decoder's arithmetic is Python's, which has no width)
IntSample == {0, 67305985, 2147483647}
TailByte == 7
\* None is the absent compression attribute; "zstd" stands for a tag the
\* decoder does not know.
None == "None"
Compressions == {None, "zlib", "gzip", "zstd"}
\* The directory of the maps and the tile set files beside them; a.tsx
\* declares tilecount 2, b.tsx declares none, an embedded tile set 48.
ParentDir == "maps"
Sources == {"a.tsx", "b.tsx"}
FirstGids == {1, 3}
NoTileCount == -1
EmbeddedTileCount == 48
FileTileCount(source) == IF source = "a.tsx" THEN 2 ELSE NoTileCount
\* functools.lru_cache() without arguments keeps 128 entries.
LruMaxSize == 128

(***************************************************************************)
(* Helpers shared by the operations.                                       *)
(***************************************************************************)
NotCalled == [called |-> FALSE]

Min(a, b) == IF a < b THEN a ELSE b

\* Python's s[a:b] for 0 <= a <= b (the end is clamped to the length).
Slice(s, a, b) == SubSeq(s, a + 1, Min(b, Len(s)))

SeqsUpTo(S, n) == UNION {[1..k -> S] : k \in 0..n}

\* int(c, 16) of one character; -1 when the character is no hex digit.
HexDigit(c) ==
    CASE c = "0" -> 0 [] c = "1" -> 1 [] c = "2" -> 2 [] c = "3" -> 3
      [] c = "4" -> 4 [] c = "5" -> 5 [] c = "6" -> 6 [] c = "7" -> 7
      [] c = "8" -> 8 [] c = "9" -> 9
      [] c \in {"a", "A"} -> 10 [] c \in {"b", "B"} -> 11
      [] c \in {"c", "C"} -> 12 [] c \in {"d", "D"} -> 13
      [] c \in {"e", "E"} -> 14 [] c \in {"f", "F"} -> 15
      [] OTHER -> -1

\* int(s, 16): the value, or -1 where Python raises ValueError (the empty
\* string, a character that is no hex digit).
RECURSIVE HexInt(_)
HexInt(s) ==
    IF Len(s) = 0 THEN -1
    ELSE LET d == HexDigit(s[Len(s)])
         IN IF d < 0 THEN -1
            ELSE IF Len(s) = 1 THEN d
            ELSE LET hi == HexInt(SubSeq(s, 1, Len(s) - 1))
                 IN IF hi < 0 THEN -1 ELSE 16 * hi + d

(***************************************************************************)
(* _parse_color                                                            *)
(***************************************************************************)
ColorResult(red, green, blue, alpha) ==
    IF red < 0 \/ green < 0 \/ blue < 0 \/ alpha < 0
    THEN [called |-> TRUE, error |-> "ValueError",
          red |-> 0, green |-> 0, blue |-> 0, alpha |-> 0]
    ELSE [called |-> TRUE, error |-> "",
          red |-> red, green |-> green, blue |-> blue, alpha |-> alpha]

\* "strip initial '#' character": the first character goes when the length
\* is odd, whatever it is.
StripHash(color) ==
    IF ~(Len(color) % 2 = 0) THEN Tail(color) ELSE color

\* A slip of the field order: the 8-digit form read as RRGGBBAA.
ParseColorMutant(color) ==
    LET c == StripHash(color)
    IN IF Len(c) = 6
       THEN ColorResult(HexInt(Slice(c, 0, 2)), HexInt(Slice(c, 2, 4)),
                        HexInt(Slice(c, 4, 6)), 255)
       ELSE ColorResult(HexInt(Slice(c, 0, 2)), HexInt(Slice(c, 2, 4)),
                        HexInt(Slice(c, 4, 6)), HexInt(Slice(c, 6, 8)))

ParseColor(color) ==
    LET c == StripHash(color)
    IN IF Len(c) = 6
       THEN ColorResult(HexInt(Slice(c, 0, 2)), HexInt(Slice(c, 2, 4)),
                        HexInt(Slice(c, 4, 6)), 255)
       ELSE ColorResult(HexInt(Slice(c, 2, 4)), HexInt(Slice(c, 4, 6)),
                        HexInt(Slice(c, 6, 8)), HexInt(Slice(c, 0, 2)))

(***************************************************************************)
(* _decode_csv_layer                                                       *)
(***************************************************************************)
\* The index of the first sep in s, 0 when there is none.
RECURSIVE FirstIndex(_, _, _)
FirstIndex(s, sep, i) ==
    IF i > Len(s) THEN 0
    ELSE IF s[i] = sep THEN i
    ELSE FirstIndex(s, sep, i + 1)

\* str.split(sep): the pieces between the separators, empty pieces included
\* (the split of the empty string is one empty piece).
RECURSIVE Split(_, _)
Split(s, sep) ==
    LET i == FirstIndex(s, sep, 1)
    IN IF i = 0 THEN <<s>>
       ELSE <<SubSeq(s, 1, i - 1)>> \o Split(SubSeq(s, i + 1, Len(s)), sep)

NonEmpty(item) == Len(item) > 0

\* while '' in line_list: line_list.remove('')
RemoveEmpty(line_list) == SelectSeq(line_list, NonEmpty)

DecDigit(c) ==
    CASE c = "0" -> 0 [] c = "1" -> 1 [] c = "2" -> 2 [] c = "3" -> 3
      [] c = "4" -> 4 [] c = "5" -> 5 [] c = "6" -> 6 [] c = "7" -> 7
      [] c = "8" -> 8 [] c = "9" -> 9
      [] OTHER -> -1

\* int(item): the value of a string of decimal digits, -1 where Python
\* raises ValueError.
RECURSIVE DecInt(_)
DecInt(item) ==
    IF Len(item) = 0 THEN -1
    ELSE LET d == DecDigit(item[Len(item)])
         IN IF d < 0 THEN -1
            ELSE IF Len(item) = 1 THEN d
            ELSE LET hi == DecInt(SubSeq(item, 1, Len(item) - 1))
                 IN IF hi < 0 THEN -1 ELSE 10 * hi + d

\* line_list_int of one line: split on ",", drop the empty items, int() the
\* rest.
LineInts(line) ==
    LET line_list == RemoveEmpty(Split(line, ","))
    IN [j \in 1..Len(line_list) |-> DecInt(line_list[j])]

\* Every line of the split appends its row, the empty lines too.
DecodeCsvLayer(text) ==
    LET lines == Split(text, "\n")
        grid == [i \in 1..Len(lines) |-> LineInts(lines[i])]
    IN IF \E i \in 1..Len(grid) : \E j \in 1..Len(grid[i]) : grid[i][j] < 0
       THEN [called |-> TRUE, error |-> "ValueError", grid |-> <<>>]
       ELSE [called |-> TRUE, error |-> "", grid |-> grid]

(***************************************************************************)
(* The payload of a base64 layer, as the editor writes it: the integers    *)
(* row-major as 4-byte little-endian, compressed, base64-encoded.          *)
(***************************************************************************)
Pow2(n) == 2 ^ n

\* The 4 bytes of v, least significant first.
LittleEndian4(v) ==
    <<v % 256, (v \div 256) % 256, (v \div 65536) % 256,
      (v \div 16777216) % 256>>

RECURSIVE Serialize(_)
Serialize(ints) ==
    IF Len(ints) = 0 THEN <<>>
    ELSE LittleEndian4(Head(ints)) \o Serialize(Tail(ints))

\* Adler-32 of a byte string, as its 4 bytes, most significant first: the
\* sum b of the running sums, then the running sum a.
RECURSIVE AdlerSums(_, _, _, _)
AdlerSums(bytes, i, a, b) ==
    IF i > Len(bytes) THEN <<b \div 256, b % 256, a \div 256, a % 256>>
    ELSE LET a2 == (a + bytes[i]) % 65521
         IN AdlerSums(bytes, i + 1, a2, (b + a2) % 65521)

Adler32(bytes) == AdlerSums(bytes, 1, 1, 0)

\* A deflate stream of one stored block (lengths below 65536): the final
\* block flag with type 00, LEN, its complement NLEN, the bytes.
DeflateStored(bytes) ==
    <<1, Len(bytes) % 256, Len(bytes) \div 256,
      255 - (Len(bytes) % 256), 255 - (Len(bytes) \div 256)>> \o bytes

\* The stored block read back: the bytes, or <<-1>> when the block is
\* malformed.
InflateStored(stream) ==
    IF Len(stream) < 5 \/ stream[1] # 1 THEN <<-1>>
    ELSE LET n == stream[2] + 256 * stream[3]
         IN IF stream[4] # 255 - stream[2] \/ stream[5] # 255 - stream[3]
               \/ Len(stream) # 5 + n
            THEN <<-1>>
            ELSE SubSeq(stream, 6, Len(stream))

ZlibHeader == <<120, 1>>
GzipHeader == <<31, 139, 8, 0, 0, 0, 0, 0, 0, 255>>

\* zlib framing: header, deflate stream, Adler-32 of the data.
ZlibCompress(bytes) ==
    ZlibHeader \o DeflateStored(bytes) \o Adler32(bytes)

\* gzip framing: header, deflate stream, length of the data (the CRC-32
\* field of the trailer is left out of the model).
GzipCompress(bytes) ==
    GzipHeader \o DeflateStored(bytes) \o LittleEndian4(Len(bytes))

Framed(stream, header, trailer_len) ==
    /\ Len(stream) >= Len(header) + trailer_len
    /\ SubSeq(stream, 1, Len(header)) = header

Body(stream, header, trailer_len) ==
    InflateStored(SubSeq(stream, Len(header) + 1, Len(stream) - trailer_len))

Trailer(stream, trailer_len) ==
    SubSeq(stream, Len(stream) - trailer_len + 1, Len(stream))

\* zlib.decompress: the data, or <<-1>> where it raises zlib.error.
ZlibDecompress(stream) ==
    IF ~Framed(stream, ZlibHeader, 4) THEN <<-1>>
    ELSE LET data == Body(stream, ZlibHeader, 4)
         IN IF data = <<-1>> THEN <<-1>>
            ELSE IF Trailer(stream, 4) # Adler32(data) THEN <<-1>>
            ELSE data

\* gzip.decompress: the data, or <<-1>> where it raises an error.
GzipDecompress(stream) ==
    IF ~Framed(stream, GzipHeader, 4) THEN <<-1>>
    ELSE LET data == Body(stream, GzipHeader, 4)
         IN IF data = <<-1>> THEN <<-1>>
            ELSE IF Trailer(stream, 4) # LittleEndian4(Len(data)) THEN <<-1>>
            ELSE data

B64Alphabet ==
    <<"A", "B", "C", "D", "E", "F", "G", "H", "I", "J", "K", "L", "M",
      "N", "O", "P", "Q", "R", "S", "T", "U", "V", "W", "X", "Y", "Z",
      "a", "b", "c", "d", "e", "f", "g", "h", "i", "j", "k", "l", "m",
      "n", "o", "p", "q", "r", "s", "t", "u", "v", "w", "x", "y", "z",
      "0", "1", "2", "3", "4", "5", "6", "7", "8", "9", "+", "/">>

B64Char(sextet) == B64Alphabet[sextet + 1]
B64Value(c) == (CHOOSE i \in 1..64 : B64Alphabet[i] = c) - 1

\* base64.b64encode: 3 bytes to 4 characters, the last group padded with "=".
RECURSIVE B64Encode(_)
B64Encode(bytes) ==
    IF Len(bytes) = 0 THEN <<>>
    ELSE IF Len(bytes) = 1
    THEN <<B64Char(bytes[1] \div 4), B64Char((bytes[1] % 4) * 16), "=", "=">>
    ELSE IF Len(bytes) = 2
    THEN <<B64Char(bytes[1] \div 4),
           B64Char((bytes[1] % 4) * 16 + bytes[2] \div 16),
           B64Char((bytes[2] % 16) * 4), "=">>
    ELSE <<B64Char(bytes[1] \div 4),
           B64Char((bytes[1] % 4) * 16 + bytes[2] \div 16),
           B64Char((bytes[2] % 16) * 4 + bytes[3] \div 64),
           B64Char(bytes[3] % 64)>> \o B64Encode(SubSeq(bytes, 4, Len(bytes)))

\* base64.b64decode of a padded text: 4 characters to 3 bytes, fewer for a
\* padded last group.
RECURSIVE B64Decode(_)
B64Decode(text) ==
    IF Len(text) < 4 THEN <<>>
    ELSE LET c1 == B64Value(text[1])
             c2 == B64Value(text[2])
             rest == B64Decode(SubSeq(text, 5, Len(text)))
         IN IF text[3] = "=" THEN <<c1 * 4 + c2 \div 16>>
            ELSE LET c3 == B64Value(text[3])
                 IN IF text[4] = "="
                    THEN <<c1 * 4 + c2 \div 16, (c2 % 16) * 16 + c3 \div 4>>
                    ELSE <<c1 * 4 + c2 \div 16, (c2 % 16) * 16 + c3 \div 4,
                           (c3 % 4) * 64 + B64Value(text[4])>> \o rest

\* The payload an editor writes for these bytes under a compression tag (a
\* tag the writer does not know leaves the bytes as they are).
EncodePayload(bytes, tag) ==
    B64Encode(CASE tag = "zlib" -> ZlibCompress(bytes)
                [] tag = "gzip" -> GzipCompress(bytes)
                [] OTHER -> bytes)

\* The rows of width w that a row-major list of integers stands for.
Rows(ints, w) ==
    [r \in 1..(Len(ints) \div w) |-> SubSeq(ints, (r - 1) * w + 1, r * w)]

(***************************************************************************)
(* _decode_base64_data                                                     *)
(***************************************************************************)
\* A slip of the tag test: every tag but zlib and gzip read as no compression.
UnzipMutant(unencoded_data, tag) ==
    CASE tag = "zlib" -> ZlibDecompress(unencoded_data)
      [] tag = "gzip" -> GzipDecompress(unencoded_data)
      [] OTHER -> unencoded_data

\* unzipped_data by the compression tag: the bytes, <<-1>> where the
\* decompressor raises, <<-2>> where the tag is none of zlib, gzip, None.
Unzip(unencoded_data, tag) ==
    CASE tag = "zlib" -> ZlibDecompress(unencoded_data)
      [] tag = "gzip" -> GzipDecompress(unencoded_data)
      [] tag = None -> unencoded_data
      [] OTHER -> <<-2>>

\* list.pop(): the list without its last item.
Pop(list) == SubSeq(list, 1, Len(list) - 1)

CsvInputs == SeqsUpTo(CsvSample, MaxCsvLen)

(***************************************************************************)
(* parse_tile_map: the tile set table, _parse_tile_set and the cached      *)
(* _parse_external_tile_set.                                               *)
(***************************************************************************)
\* A tile set element of a map document: its firstgid and its source
\* attribute (None for an embedded tile set).
TileSetElements == [firstgid : FirstGids, source : Sources \cup {None}]

\* The index of the cache entry for these arguments, 0 when there is none.
\* The key is the argument tuple: the Path by value, the Element by
\* identity (Element defines neither __eq__ nor __hash__).
CacheIndex(entries, dir, elem) ==
    IF \E i \in 1..Len(entries) :
           entries[i].dir = dir /\ entries[i].elem = elem
    THEN CHOOSE i \in 1..Len(entries) :
           entries[i].dir = dir /\ entries[i].elem = elem
    ELSE 0

Without(entries, i) ==
    SubSeq(entries, 1, i - 1) \o SubSeq(entries, i + 1, Len(entries))

\* A hit moves the entry to the most recently used end.
CacheTouch(entries, i) == Append(Without(entries, i), entries[i])

\* A miss stores the result; a full cache drops its least recently used
\* entry first.
CacheInsert(entries, entry) ==
    IF Len(entries) >= LruMaxSize
    THEN Append(Tail(entries), entry)
    ELSE Append(entries, entry)

\* The TileSet object _parse_tile_set builds: a new object each call.
NewTileSet(inst, tilecount, source) ==
    [inst |-> inst, tilecount |-> tilecount, source |-> source]

\* _parse_external_tile_set(parent_dir, tile_set_element) under lru_cache:
\* a hit returns the stored object; a miss reads the file parent_dir/source,
\* parses it and stores the result.
ParseExternalTileSet(st, dir, elem, source) ==
    LET i == CacheIndex(st.cache, dir, elem)
    IN IF i # 0
       THEN [st EXCEPT !.cache = CacheTouch(@, i),
                       !.value = st.cache[i].value]
       ELSE LET tile_set ==
                    NewTileSet(st.next_inst, FileTileCount(source), source)
            IN [st EXCEPT
                   !.cache = CacheInsert(@, [dir |-> dir, elem |-> elem,
                                             value |-> tile_set]),
                   !.parse_count[source] = @ + 1,
                   !.next_inst = @ + 1,
                   !.value = tile_set]

\* A slip of _parse_tile_set: the object built is handed out again by the
\* next call.
ParseEmbeddedTileSetMutant(st) ==
    [st EXCEPT !.value = NewTileSet(st.next_inst, EmbeddedTileCount, None)]

\* _parse_tile_set on an embedded element: no cache, a new object.
ParseEmbeddedTileSet(st) ==
    [st EXCEPT !.next_inst = @ + 1,
               !.value = NewTileSet(st.next_inst, EmbeddedTileCount, None)]

\* tile_sets[firstgid] = tile_set on a dict kept as its items in insertion
\* order: a key already there keeps its place and takes the new value.
DictSet(items, firstgid, tile_set) ==
    IF \E i \in 1..Len(items) : items[i].firstgid = firstgid
    THEN [i \in 1..Len(items) |->
             IF items[i].firstgid = firstgid
             THEN [firstgid |-> firstgid, tile_set |-> tile_set]
             ELSE items[i]]
    ELSE Append(items, [firstgid |-> firstgid, tile_set |-> tile_set])

\* One pass of "for tile_set_element in tile_set_element_list": the element
\* is a new object of the document tree just read.
TileSetPass(st, element) ==
    LET elem == st.next_elem
        st1 == [st EXCEPT !.next_elem = @ + 1]
        st2 == IF element.source = None
               THEN ParseEmbeddedTileSet(st1)
               ELSE ParseExternalTileSet(st1, ParentDir, elem, element.source)
    IN [st2 EXCEPT
           !.tile_sets = DictSet(@, element.firstgid, st2.value),
           !.resolved = Append(@, [elem |-> elem, source |-> element.source,
                                   firstgid |-> element.firstgid,
                                   inst |-> st2.value.inst])]

RECURSIVE TileSetLoop(_, _)
TileSetLoop(st, elements) ==
    IF Len(elements) = 0 THEN st
    ELSE TileSetLoop(TileSetPass(st, Head(elements)), Tail(elements))

(***************************************************************************)
(* The lookup of a global tile id in tile_sets, as the note at the end of  *)
(* the module works it out: max(i for i in ids if i < value).              *)
(***************************************************************************)
Max(S) == CHOOSE m \in S : \A x \in S : x <= m

DictGet(items, firstgid) ==
    (CHOOSE i \in 1..Len(items) : items[i].firstgid = firstgid)

\* The first gids the note's filter keeps.
IdsBelow(items, gid) ==
    {items[i].firstgid : i \in {k \in 1..Len(items) : items[k].firstgid < gid}}

\* max() of an empty sequence raises ValueError; otherwise the tile set
\* under the greatest id kept, and the id within it.
TileForGlobalId(items, gid) ==
    LET ids == IdsBelow(items, gid)
    IN IF ids = {}
       THEN [called |-> TRUE, error |-> "ValueError", gid |-> gid,
             firstgid |-> 0, local_id |-> 0, inst |-> 0,
             tilecount |-> NoTileCount]
       ELSE LET first == Max(ids)
                tile_set == items[DictGet(items, first)].tile_set
            IN [called |-> TRUE, error |-> "", gid |-> gid,
                firstgid |-> first, local_id |-> gid - first,
                inst |-> tile_set.inst, tilecount |-> tile_set.tilecount]

(***************************************************************************)
(* _parse_properties_element                                               *)
(***************************************************************************)
PropertyTypes == {"string", "int", "float", "bool", "color", "file"}

\* A value of the Properties dict: an int, a float, a Color, a Path, a bool
\* or a str, told apart by kind.
PropertyValue(kind, num, text, flag, color) ==
    [kind |-> kind, num |-> num, text |-> text, flag |-> flag,
     color |-> color]

NoColor == <<0, 0, 0, 0>>

\* The branch of the if/elif chain the type takes and the value it stores;
\* int(), float() and _parse_color raise ValueError on a value they cannot
\* read. float() of a string of decimal digits is the number int() gives.
ConvertProperty(property_type, value) ==
    CASE property_type = "int" ->
           [error |-> IF DecInt(value) < 0 THEN "ValueError" ELSE "",
            value |-> PropertyValue("int", DecInt(value), <<>>, FALSE,
                                    NoColor)]
      [] property_type = "float" ->
           [error |-> IF DecInt(value) < 0 THEN "ValueError" ELSE "",
            value |-> PropertyValue("float", DecInt(value), <<>>, FALSE,
                                    NoColor)]
      [] property_type = "color" ->
           LET c == ParseColor(value)
           IN [error |-> c.error,
               value |-> PropertyValue("Color", 0, <<>>, FALSE,
                                       <<c.red, c.green, c.blue, c.alpha>>)]
      [] property_type = "file" ->
           [error |-> "",
            value |-> PropertyValue("Path", 0, value, FALSE, NoColor)]
      [] property_type = "bool" ->
           [error |-> "",
            value |-> PropertyValue("bool", 0, <<>>,
                                    value = <<"t", "r", "u", "e">>, NoColor)]
      [] OTHER ->
           [error |-> "",
            value |-> PropertyValue("str", 0, value, FALSE, NoColor)]

\* A slip of properties[name] = value: a name already there keeps its value.
PropertySetMutant(items, name, value) ==
    IF \E i \in 1..Len(items) : items[i].name = name
    THEN items
    ELSE Append(items, [name |-> name, value |-> value])

\* properties[name] = value on a dict kept as its items in insertion order.
PropertySet(items, name, value) ==
    IF \E i \in 1..Len(items) : items[i].name = name
    THEN [i \in 1..Len(items) |->
             IF items[i].name = name
             THEN [name |-> name, value |-> value]
             ELSE items[i]]
    ELSE Append(items, [name |-> name, value |-> value])

PropertiesFailure(error, name) ==
    [called |-> TRUE, error |-> error, name |-> name, properties |-> <<>>]

\* One pass of "for property_element in ...": an absent type attribute reads
\* as 'string'; the assert statement runs unless the interpreter compiles
\* assert statements out (python -O, PYTHONOPTIMIZE).
PropertyPass(out, property_element, optimized) ==
    LET name == property_element.name
        property_type == IF property_element.type = None
                         THEN "string"
                         ELSE property_element.type
        converted == ConvertProperty(property_type, property_element.value)
    IN IF ~optimized /\ property_type \notin PropertyTypes
       THEN PropertiesFailure("AssertionError", name)
       ELSE IF converted.error # ""
       THEN PropertiesFailure(converted.error, name)
       ELSE [out EXCEPT
                !.properties = PropertySet(@, name, converted.value)]

RECURSIVE PropertyLoop(_, _, _)
PropertyLoop(out, elements, optimized) ==
    IF out.error # "" \/ Len(elements) = 0 THEN out
    ELSE PropertyLoop(PropertyPass(out, Head(elements), optimized),
                      Tail(elements), optimized)

ParsePropertiesElement(elements, optimized) ==
    PropertyLoop([called |-> TRUE, error |-> "", name |-> "",
                  properties |-> <<>>], elements, optimized)

(***************************************************************************)
(* parse_tile_map, "parse all layers", with _parse_layer_type and          *)
(* _parse_layer                                                            *)
(***************************************************************************)
layer_tags == {"layer", "objectgroup", "group"}

\* _parse_layer(element, layer_type): after width and height it evaluates
\* element.find['./data'], the subscript of a bound method, which raises
\* TypeError before _parse_data is called, whatever the data element holds.
ParseLayer(element) == [error |-> "TypeError", layer |-> None]

\* _parse_layer_type(layer_element): only the 'layer' tag is dispatched; the
\* other branches are commented out, so the function ends without a return
\* statement and gives None.
ParseLayerType(layer_element) ==
    IF layer_element.tag = "layer"
    THEN ParseLayer(layer_element)
    ELSE [error |-> "", layer |-> None]

\* One pass of "for element in map_element.findall('./')".
LayerPass(out, element) ==
    IF element.tag \notin layer_tags THEN out
    ELSE LET parsed == ParseLayerType(element)
         IN IF parsed.error # ""
            THEN [called |-> TRUE, error |-> parsed.error, layers |-> <<>>]
            ELSE [out EXCEPT !.layers = Append(@, parsed.layer)]

RECURSIVE LayerLoop(_, _)
LayerLoop(out, elements) ==
    IF out.error # "" \/ Len(elements) = 0 THEN out
    ELSE LayerLoop(LayerPass(out, Head(elements)), Tail(elements))

ParseLayers(elements) ==
    LayerLoop([called |-> TRUE, error |-> "", layers |-> <<>>], elements)

(***************************************************************************)
(* _parse_external_tile_set called from several threads. functools'        *)
(* lru_cache wrapper looks the key up, calls the function on a miss with   *)
(* no lock held, and stores the result afterwards unless the key was       *)
(* stored during the call; each of the three steps is atomic, the wrapped  *)
(* function may run in several threads at once.                            *)
(***************************************************************************)
\* The Element objects the threads hold: two tileset elements that name the
\* same file and one that names another.
ElementSource(elem) == IF elem \in {1, 2} THEN "a.tsx" ELSE "b.tsx"
SharedElements == {1, 2, 3}

\* A thread at the start of its call on this element.
ThreadAt(elem) ==
    [pc |-> "lookup", elem |-> elem, source |-> ElementSource(elem),
     inst |-> 0]

\* The wrapper's lookup: a hit returns the stored object.
CacheLookup(t) ==
    /\ threads[t].pc = "lookup"
    /\ LET i == CacheIndex(cache, ParentDir, threads[t].elem)
       IN IF i # 0
          THEN /\ cache' = CacheTouch(cache, i)
               /\ threads' = [threads EXCEPT
                                 ![t].pc = "done",
                                 ![t].inst = cache[i].value.inst]
          ELSE /\ cache' = cache
               /\ threads' = [threads EXCEPT ![t].pc = "call"]
    /\ UNCHANGED <<parse_count, next_inst>>

\* The wrapped function: the file is read and parsed into a new TileSet.
CacheCall(t) ==
    /\ threads[t].pc = "call"
    /\ parse_count' = [parse_count EXCEPT ![threads[t].source] = @ + 1]
    /\ next_inst' = next_inst + 1
    /\ threads' = [threads EXCEPT ![t].pc = "store", ![t].inst = next_inst]
    /\ UNCHANGED cache

\* After the call: when the key was stored meanwhile the wrapper returns the
\* result of its own call and leaves the stored one; otherwise it stores.
CacheStore(t) ==
    /\ threads[t].pc = "store"
    /\ cache' = IF CacheIndex(cache, ParentDir, threads[t].elem) # 0
                THEN cache
                ELSE CacheInsert(cache,
                         [dir |-> ParentDir, elem |-> threads[t].elem,
                          value |-> NewTileSet(threads[t].inst,
                                        FileTileCount(threads[t].source),
                                        threads[t].source)])
    /\ threads' = [threads EXCEPT ![t].pc = "done"]
    /\ UNCHANGED <<parse_count, next_inst>>

(***************************************************************************)
(* The calls. Each specification calls one function on arguments drawn     *)
(* from a bounded set; the variables of the other functions stay idle.     *)
(***************************************************************************)
ColorInputs ==
    {prefix \o body : prefix \in {<<>>, <<"#">>},
                      body \in SeqsUpTo(HexSample, MaxHexLen)}

ColorIdle == color_in = <<>> /\ color_out = NotCalled
CsvIdle == csv_in = <<>> /\ csv_out = NotCalled

B64LocalsUnset ==
    /\ unzipped_data = <<>>
    /\ pos = 0
    /\ tile_grid = <<>>
    /\ byte_count = 0
    /\ int_count = 0
    /\ int_value = 0
    /\ row_count = 0

B64Idle ==
    /\ data_text = <<>>
    /\ compression = None
    /\ layer_width = 1
    /\ src_ints = <<>>
    /\ src_tail = <<>>
    /\ pc = "idle"
    /\ B64LocalsUnset
    /\ b64_out = NotCalled

MapIdle ==
    /\ cache = <<>>
    /\ parse_count = [source \in Sources |-> 0]
    /\ next_elem = 1
    /\ next_inst = 1
    /\ resolved = <<>>
    /\ tile_sets = <<>>
    /\ found = NotCalled
    /\ tile_set_element_list = <<>>

PropIdle == props_in = <<>> /\ optimize = FALSE /\ props_out = NotCalled
LayerIdle == top_elements = <<>> /\ layers_out = NotCalled
ThreadIdle == threads = <<>>
ExtIdle == PropIdle /\ LayerIdle /\ ThreadIdle

\* The property elements drawn: two names, every type of property_types, an
\* absent type and one type outside the list, and three values.
PropertyNames == {"a", "b"}
TypeSample == PropertyTypes \cup {None, "pony"}
ValueSample == {<<"t", "r", "u", "e">>, <<"7">>,
                <<"a", "a", "b", "b", "c", "c">>}
PropertyElements == [name : PropertyNames, type : TypeSample,
                     value : ValueSample]

\* The top-level elements drawn: a tile layer with csv, base64 or another
\* encoding of its data, an object group, a layer group, and two elements
\* that are no layers.
Encodings == {"csv", "base64", "hex"}
TopElements ==
    [tag : {"layer"}, encoding : Encodings]
    \cup [tag : {"objectgroup", "group", "tileset", "properties"},
          encoding : {None}]

InitColor ==
    /\ color_in \in ColorInputs
    /\ color_out = NotCalled
    /\ CsvIdle
    /\ B64Idle
    /\ MapIdle
    /\ ExtIdle

CallParseColor ==
    /\ color_out = NotCalled
    /\ color_out' = ParseColor(color_in)
    /\ UNCHANGED <<color_in, csvVars, b64Vars, mapVars, extVars>>

NextColor == CallParseColor

SpecColor == InitColor /\ [][NextColor]_vars

InitCsv ==
    /\ csv_in \in CsvInputs
    /\ csv_out = NotCalled
    /\ ColorIdle
    /\ B64Idle
    /\ MapIdle
    /\ ExtIdle

CallDecodeCsvLayer ==
    /\ csv_out = NotCalled
    /\ csv_out' = DecodeCsvLayer(csv_in)
    /\ UNCHANGED <<csv_in, colorVars, b64Vars, mapVars, extVars>>

NextCsv == CallDecodeCsvLayer

SpecCsv == InitCsv /\ [][NextCsv]_vars

\* The payload holds up to MaxInts integers and then 0 to 3 more bytes.
InitB64 ==
    /\ src_ints \in SeqsUpTo(IntSample, MaxInts)
    /\ src_tail \in {[i \in 1..k |-> TailByte] : k \in 0..3}
    /\ compression \in Compressions
    /\ layer_width \in 1..MaxWidth
    /\ data_text = EncodePayload(Serialize(src_ints) \o src_tail, compression)
    /\ pc = "start"
    /\ B64LocalsUnset
    /\ b64_out = NotCalled
    /\ ColorIdle
    /\ CsvIdle
    /\ MapIdle
    /\ ExtIdle

\* tile_grid = [[]], the base64 decoding and the decompression; an unknown
\* tag or a stream the decompressor refuses ends the call with the error.
B64Start ==
    /\ pc = "start"
    /\ LET unzipped == Unzip(B64Decode(data_text), compression)
       IN IF unzipped \in {<<-1>>, <<-2>>}
          THEN /\ pc' = "done"
               /\ b64_out' = [called |-> TRUE,
                              error |-> IF unzipped = <<-2>> THEN "ValueError"
                                        ELSE "zlib.error",
                              grid |-> <<>>]
               /\ UNCHANGED b64Locals
          ELSE /\ pc' = "loop"
               /\ unzipped_data' = unzipped
               /\ pos' = 1
               /\ tile_grid' = <<<<>>>>
               /\ byte_count' = 0
               /\ int_count' = 0
               /\ int_value' = 0
               /\ row_count' = 0
               /\ UNCHANGED b64_out
    /\ UNCHANGED <<b64Args, colorVars, csvVars, mapVars, extVars>>

\* The width test of the loop body: a full row closes and an empty one opens.
RowClosesMutant(count, width) == (count + 1) % width = 0

RowCloses(count, width) == count % width = 0

\* One pass of "for byte in unzipped_data".
B64Byte ==
    /\ pc = "loop"
    /\ pos <= Len(unzipped_data)
    /\ pos' = pos + 1
    /\ LET byte == unzipped_data[pos]
           value == int_value + byte * Pow2(byte_count * 8)
       IN IF (byte_count + 1) % 4 = 0
          THEN /\ byte_count' = 0
               /\ int_count' = int_count + 1
               /\ int_value' = 0
               /\ LET appended ==
                       [tile_grid EXCEPT ![row_count + 1] = Append(@, value)]
                  IN IF RowCloses(int_count + 1, layer_width)
                     THEN /\ row_count' = row_count + 1
                          /\ tile_grid' = Append(appended, <<>>)
                     ELSE /\ row_count' = row_count
                          /\ tile_grid' = appended
          ELSE /\ byte_count' = byte_count + 1
               /\ int_value' = value
               /\ UNCHANGED <<int_count, row_count, tile_grid>>
    /\ UNCHANGED <<b64Args, pc, unzipped_data, b64_out, colorVars, csvVars,
                   mapVars, extVars>>

\* The loop has ended: tile_grid.pop() and return tile_grid.
B64Return ==
    /\ pc = "loop"
    /\ pos > Len(unzipped_data)
    /\ pc' = "done"
    /\ tile_grid' = Pop(tile_grid)
    /\ b64_out' = [called |-> TRUE, error |-> "", grid |-> Pop(tile_grid)]
    /\ UNCHANGED <<b64Args, unzipped_data, pos, byte_count, int_count,
                   int_value, row_count, colorVars, csvVars, mapVars, extVars>>

NextB64 == B64Start \/ B64Byte \/ B64Return

SpecB64 == InitB64 /\ [][NextB64]_vars

\* The process starts with an empty cache and no map.
Init ==
    /\ MapIdle
    /\ ColorIdle
    /\ CsvIdle
    /\ B64Idle
    /\ ExtIdle

CatalogState ==
    [cache |-> cache, parse_count |-> parse_count, next_elem |-> next_elem,
     next_inst |-> next_inst, resolved |-> resolved, tile_sets |-> <<>>,
     value |-> NewTileSet(0, NoTileCount, None)]

\* parse_tile_map on a document with these tile set elements: tile_sets
\* starts empty and takes one assignment per element.
ParseTileMap ==
    \E elements \in SeqsUpTo(TileSetElements, MaxRefs - Len(resolved)) :
        LET st == TileSetLoop(CatalogState, elements)
        IN /\ cache' = st.cache
           /\ parse_count' = st.parse_count
           /\ next_elem' = st.next_elem
           /\ next_inst' = st.next_inst
           /\ resolved' = st.resolved
           /\ tile_sets' = st.tile_sets
           /\ found' = NotCalled
           /\ tile_set_element_list' = elements
           /\ UNCHANGED <<colorVars, csvVars, b64Vars, extVars>>

\* _parse_external_tile_set called again with an Element of a document
\* read before.
CallParseExternalTileSet ==
    /\ Len(resolved) < MaxRefs
    /\ \E r \in 1..Len(resolved) :
          /\ resolved[r].source # None
          /\ LET st == ParseExternalTileSet(CatalogState, ParentDir,
                                            resolved[r].elem,
                                            resolved[r].source)
             IN /\ cache' = st.cache
                /\ parse_count' = st.parse_count
                /\ next_inst' = st.next_inst
                /\ resolved' = Append(resolved,
                                      [resolved[r] EXCEPT
                                           !.inst = st.value.inst])
    /\ UNCHANGED <<next_elem, tile_sets, found, tile_set_element_list,
                   colorVars, csvVars, b64Vars, extVars>>

\* The lookup of a global id in the map parsed last.
LookupGlobalId ==
    /\ \E gid \in 0..MaxGid : found' = TileForGlobalId(tile_sets, gid)
    /\ UNCHANGED <<catalogVars, tile_sets, tile_set_element_list, colorVars,
                   csvVars, b64Vars, extVars>>

Next == ParseTileMap \/ CallParseExternalTileSet \/ LookupGlobalId

Spec == Init /\ [][Next]_vars

(***************************************************************************)
(* Claims about _parse_color.                                              *)
(***************************************************************************)
HasHash == Len(color_in) > 0 /\ color_in[1] = "#"
HexPart == IF HasHash THEN Tail(color_in) ELSE color_in
HexByte(s, i) == 16 * HexDigit(s[i]) + HexDigit(s[i + 1])

\* C9: a string of exactly 6 hex digits RRGGBB, with or without one leading
\* '#', parses to (RR, GG, BB, 0xFF), and one of exactly 8 hex digits
\* AARRGGBB to (RR, GG, BB, AA); the result depends on the hex digits alone,
\* so it is the same with and without the '#'.
C9_ColorFields ==
    color_out.called =>
        /\ Len(HexPart) = 6 =>
              color_out = [called |-> TRUE, error |-> "",
                           red |-> HexByte(HexPart, 1),
                           green |-> HexByte(HexPart, 3),
                           blue |-> HexByte(HexPart, 5),
                           alpha |-> 255]
        /\ Len(HexPart) = 8 =>
              color_out = [called |-> TRUE, error |-> "",
                           red |-> HexByte(HexPart, 3),
                           green |-> HexByte(HexPart, 5),
                           blue |-> HexByte(HexPart, 7),
                           alpha |-> HexByte(HexPart, 1)]

\* An 8-digit colour behind a '#' has been parsed: alpha 0x0a, red 0xF0.
C9_Witness ==
    /\ color_out.called
    /\ HasHash
    /\ Len(HexPart) = 8
    /\ color_out.error = ""
    /\ color_out.alpha = 10
    /\ color_out.red = 240
    /\ color_out.blue = 15

\* C10: an input whose hex part is neither 6 nor 8 digits long is never
\* answered with a Color (the call fails).
C10_MalformedLengthFails ==
    (color_out.called /\ Len(HexPart) \notin {6, 8}) => color_out.error # ""

(***************************************************************************)
(* Claims about _decode_csv_layer.                                         *)
(***************************************************************************)
\* The rows the payload's non-empty lines stand for, in payload order.
NonEmptyLineRows(text) ==
    LET kept == SelectSeq(Split(text, "\n"), NonEmpty)
    IN [i \in 1..Len(kept) |-> LineInts(kept[i])]

\* C6: the CSV decoder returns exactly one row per non-empty line of the
\* payload, in payload order; empty lines (before a leading newline, after a
\* trailing one) give no row and empty tokens give no entry.
C6_OneRowPerNonEmptyLine ==
    (csv_out.called /\ csv_out.error = "") =>
        csv_out.grid = NonEmptyLineRows(csv_in)

(***************************************************************************)
(* Claims about _decode_base64_data.                                       *)
(***************************************************************************)
B64Returned == pc = "done" /\ b64_out.called /\ b64_out.error = ""

\* C3: a rectangular grid of at least one row of width w >= 1, serialised
\* row-major as 4-byte little-endian integers, compressed with none, zlib
\* or gzip and base64-encoded, decodes with declared width w to the same
\* grid: the same rows, of the same lengths, with the same values.
C3_RoundTrip ==
    (/\ pc = "done"
     /\ compression \in {None, "zlib", "gzip"}
     /\ src_tail = <<>>
     /\ Len(src_ints) >= layer_width
     /\ Len(src_ints) % layer_width = 0)
    => /\ b64_out.called
       /\ b64_out.error = ""
       /\ b64_out.grid = Rows(src_ints, layer_width)

\* A zlib payload of two rows of two has been decoded, 0x04030201 first in
\* the second row.
C3_Witness ==
    /\ B64Returned
    /\ compression = "zlib"
    /\ layer_width = 2
    /\ src_tail = <<>>
    /\ Len(src_ints) = 4
    /\ Len(b64_out.grid) = 2
    /\ b64_out.grid[2][1] = 67305985
    /\ b64_out.grid[1][2] = 2147483647

\* C4: a byte stream whose length is a multiple of 4 but whose integer count
\* is not a multiple of the declared width makes the decoder fail; no grid
\* is returned.
C4_PartialRowFails ==
    (/\ pc = "done"
     /\ b64_out.called
     /\ compression \in {None, "zlib", "gzip"}
     /\ Len(unzipped_data) % 4 = 0
     /\ (Len(unzipped_data) \div 4) % layer_width # 0)
    => b64_out.error # ""

\* C5: a payload whose decompressed length is not a multiple of 4 makes the
\* decoder fail; no grid is returned.
C5_TrailingBytesFail ==
    (/\ pc = "done"
     /\ b64_out.called
     /\ compression \in {None, "zlib", "gzip"}
     /\ Len(unzipped_data) % 4 # 0)
    => b64_out.error # ""

(***************************************************************************)
(* Claims about the external tile set cache.                               *)
(***************************************************************************)
\* C2: after any sequence of resolutions, from one map or several, each
\* external source path has been parsed at most once, and every reference
\* to one path has got the same TileSet object.
C2_ParsedOncePerPath ==
    /\ \A source \in Sources : parse_count[source] <= 1
    /\ \A i, j \in 1..Len(resolved) :
          (resolved[i].source # None
           /\ resolved[i].source = resolved[j].source)
          => resolved[i].inst = resolved[j].inst

(***************************************************************************)
(* Claims about the lookup of a global tile id.                            *)
(***************************************************************************)
FirstGidsOf(items) == {items[i].firstgid : i \in 1..Len(items)}
FirstGidsAtMost(items, gid) == {f \in FirstGidsOf(items) : f <= gid}

\* C1: for a gid >= 1 that some tile set's firstgid does not exceed, the
\* lookup answers with the greatest firstgid <= gid (the bound included)
\* and with local id gid - firstgid, so the answer moves to the next tile
\* set at gid = its firstgid.
C1_GreatestFirstGidAtMost ==
    (/\ found.called
     /\ found.gid >= 1
     /\ FirstGidsAtMost(tile_sets, found.gid) # {})
    => /\ found.error = ""
       /\ found.firstgid = Max(FirstGidsAtMost(tile_sets, found.gid))
       /\ found.local_id = found.gid - found.firstgid

\* C7: the lookup of gid 0 fails whatever the map holds, and in a map whose
\* only tile set has firstgid 1 and 48 tiles the lookup of gid 1 answers
\* with local id 0 of that tile set.
C7_ZeroFailsOneResolves ==
    found.called =>
        /\ found.gid = 0 => found.error # ""
        /\ (/\ found.gid = 1
            /\ Len(tile_sets) = 1
            /\ tile_sets[1].firstgid = 1
            /\ tile_sets[1].tile_set.tilecount = EmbeddedTileCount)
           => /\ found.error = ""
              /\ found.local_id = 0
              /\ found.inst = tile_sets[1].tile_set.inst

\* C8: the lookup fails when no tile set's firstgid is <= gid, and never
\* answers with a local id outside [0, tilecount) of a tile set whose
\* tilecount is known.
C8_LocalIdWithinTileCount ==
    found.called =>
        /\ FirstGidsAtMost(tile_sets, found.gid) = {} => found.error # ""
        /\ (found.error = "" /\ found.tilecount # NoTileCount)
           => (0 <= found.local_id /\ found.local_id < found.tilecount)

KnownCompressions == {None, "zlib", "gzip"}

C17_RowsHaveDeclaredWidth ==
    /\ B64Returned
       => \A r \in 1..Len(b64_out.grid) : Len(b64_out.grid[r]) = layer_width
    /\ pc = "loop"
       => /\ Len(tile_grid) >= 1
          /\ \A r \in 1..(Len(tile_grid) - 1) :
                Len(tile_grid[r]) = layer_width
          /\ Len(tile_grid[Len(tile_grid)]) < layer_width

\* In the loop over a stream that is no whole number of integers, one row is
\* closed and the open row holds one integer of two.
C17_Witness ==
    /\ pc = "loop"
    /\ layer_width = 2
    /\ Len(unzipped_data) % 4 # 0
    /\ Len(tile_grid) = 2
    /\ Len(tile_grid[1]) = 2
    /\ Len(tile_grid[2]) = 1

(***************************************************************************)
(* _parse_properties_element(properties_element) on up to MaxProps         *)
(* property elements.                                                      *)
(***************************************************************************)
InitProps ==
    /\ props_in \in SeqsUpTo(PropertyElements, MaxProps)
    /\ optimize \in BOOLEAN
    /\ props_out = NotCalled
    /\ ColorIdle
    /\ CsvIdle
    /\ B64Idle
    /\ MapIdle
    /\ LayerIdle
    /\ ThreadIdle

CallParsePropertiesElement ==
    /\ ~props_out.called
    /\ props_out' = ParsePropertiesElement(props_in, optimize)
    /\ UNCHANGED <<props_in, optimize, colorVars, csvVars, b64Vars, mapVars,
                   layerVars, threads>>

NextProps == CallParsePropertiesElement

SpecProps == InitProps /\ [][NextProps]_vars

\* The index of the first property element whose type attribute is present
\* and outside property_types, 0 when there is none.
FirstUnknownType ==
    LET bad == {i \in 1..Len(props_in) :
                   props_in[i].type \notin PropertyTypes \cup {None}}
    IN IF bad = {} THEN 0 ELSE CHOOSE i \in bad : \A j \in bad : i <= j

\* The type a property element is read with.
TypeRead(i) == IF props_in[i].type = None THEN "string" ELSE props_in[i].type

ConversionFails(i) ==
    ConvertProperty(TypeRead(i), props_in[i].value).error # ""

\* C11: a property element whose type is outside {string, int, float, bool,
\* color, file} makes the call fail with InvalidPropertyTypeError naming that
\* property, and no dict is returned; elements without a type attribute are
\* read as strings and never fail.
C11_UnknownTypeFails ==
    props_out.called =>
        /\ (/\ FirstUnknownType # 0
            /\ \A i \in 1..(FirstUnknownType - 1) : ~ConversionFails(i))
           => /\ props_out.error = "InvalidPropertyTypeError"
              /\ props_out.name = props_in[FirstUnknownType].name
              /\ props_out.properties = <<>>
        /\ (\A i \in 1..Len(props_in) : props_in[i].type = None)
           => /\ props_out.error = ""
              /\ \A i \in 1..Len(props_out.properties) :
                    props_out.properties[i].value.kind = "str"

\* The last property element that carries this name.
LastWithName(name) ==
    CHOOSE i \in 1..Len(props_in) :
        /\ props_in[i].name = name
        /\ \A j \in 1..Len(props_in) : props_in[j].name = name => j <= i

\* C12: when every property element has a type of the list (or none), the
\* call fails with ValueError exactly when some value cannot be converted;
\* otherwise the dict holds one entry per distinct name, each name maps to
\* the conversion of the last element carrying it, and a bool is True
\* exactly when the raw value is "true".
C12_LastWriteWins ==
    (props_out.called /\ FirstUnknownType = 0) =>
        IF \E i \in 1..Len(props_in) : ConversionFails(i)
        THEN props_out.error = "ValueError" /\ props_out.properties = <<>>
        ELSE LET items == props_out.properties
             IN /\ props_out.error = ""
                /\ {items[i].name : i \in 1..Len(items)}
                     = {props_in[i].name : i \in 1..Len(props_in)}
                /\ \A i, j \in 1..Len(items) :
                      items[i].name = items[j].name => i = j
                /\ \A i \in 1..Len(items) :
                      LET last == LastWithName(items[i].name)
                      IN /\ items[i].value
                              = ConvertProperty(TypeRead(last),
                                                props_in[last].value).value
                         /\ TypeRead(last) = "bool"
                            => /\ items[i].value.kind = "bool"
                               /\ items[i].value.flag
                                    <=> (props_in[last].value
                                           = <<"t", "r", "u", "e">>)

C12_Witness ==
    /\ props_out.called
    /\ Len(props_in) = 2
    /\ props_in[1].name = "a" /\ props_in[2].name = "a"
    /\ props_in[1].type = "int" /\ props_in[1].value = <<"7">>
    /\ props_in[2].type = "bool" /\ props_in[2].value = <<"t", "r", "u", "e">>
    /\ props_out.error = ""
    /\ Len(props_out.properties) = 1
    /\ props_out.properties[1].value.kind = "bool"
    /\ props_out.properties[1].value.flag

(***************************************************************************)
(* The layers loop of parse_tile_map on a document of up to MaxTop         *)
(* top-level elements.                                                     *)
(***************************************************************************)
InitLayers ==
    /\ top_elements \in SeqsUpTo(TopElements, MaxTop)
    /\ layers_out = NotCalled
    /\ ColorIdle
    /\ CsvIdle
    /\ B64Idle
    /\ MapIdle
    /\ PropIdle
    /\ ThreadIdle

CallParseLayers ==
    /\ ~layers_out.called
    /\ layers_out' = ParseLayers(top_elements)
    /\ UNCHANGED <<top_elements, colorVars, csvVars, b64Vars, mapVars,
                   propVars, threads>>

NextLayers == CallParseLayers

SpecLayers == InitLayers /\ [][NextLayers]_vars

\* C14: a tile layer whose data carries an encoding other than csv or base64
\* makes the parse of the map fail with EncodingError, and no layer list
\* comes back.
C14_UnknownEncodingError ==
    (/\ layers_out.called
     /\ \E i \in 1..Len(top_elements) :
           /\ top_elements[i].tag = "layer"
           /\ top_elements[i].encoding \notin {"csv", "base64"})
    => /\ layers_out.error = "EncodingError"
       /\ layers_out.layers = <<>>

\* The layer object each layer tag stands for.
LayerClass(tag) ==
    CASE tag = "layer" -> "Layer"
      [] tag = "objectgroup" -> "ObjectGroup"
      [] tag = "group" -> "LayerGroup"

IsLayerElement(element) == element.tag \in layer_tags

\* C15: the layers list holds one parsed layer per top-level element tagged
\* layer, objectgroup or group, in document order and of the class of its
\* tag; other elements add nothing and no entry is None.
C15_OneLayerPerLayerElement ==
    layers_out.called =>
        LET layer_elements == SelectSeq(top_elements, IsLayerElement)
        IN /\ layers_out.error = ""
           /\ layers_out.layers
                = [i \in 1..Len(layer_elements) |->
                      LayerClass(layer_elements[i].tag)]

(***************************************************************************)
(* Claims about the tile sets of a parsed map.                             *)
(***************************************************************************)
\* C18: after parse_tile_map the map holds one tile set entry per tileset
\* element of the document, in document order and under that element's
\* firstgid; two elements with the same firstgid both stay.
C18_OneEntryPerTileSetElement ==
    [i \in 1..Len(tile_sets) |-> tile_sets[i].firstgid]
        = [i \in 1..Len(tile_set_element_list) |->
              tile_set_element_list[i].firstgid]

IsExternal(element) == element.source # None

\* The step is a run of parse_tile_map.
IsParseTileMap ==
    /\ found' = NotCalled
    /\ next_elem' = next_elem + Len(tile_set_element_list')
    /\ Len(resolved') = Len(resolved) + Len(tile_set_element_list')

\* C19: an embedded tile set element is parsed into a TileSet object that no
\* other element holds, two embedded elements get two objects, and the
\* cache holds nothing of them; a document of embedded elements alone leaves
\* the cache and the parse counts as they were, and in any document the
\* parse counts and the size of the cache are those of its external
\* elements alone.
C19_EmbeddedBypassesCache ==
    /\ [](/\ \A i, j \in 1..Len(resolved) :
               (resolved[i].source = None /\ i # j)
               => resolved[i].inst # resolved[j].inst
          /\ \A c \in 1..Len(cache) :
               /\ cache[c].value.source # None
               /\ \A i \in 1..Len(resolved) :
                     resolved[i].source = None
                     => /\ resolved[i].elem # cache[c].elem
                        /\ resolved[i].inst # cache[c].value.inst)
    /\ [][IsParseTileMap =>
            LET external == SelectSeq(tile_set_element_list', IsExternal)
                alone == TileSetLoop(CatalogState, external)
            IN /\ parse_count' = alone.parse_count
               /\ Len(cache') = Len(alone.cache)
               /\ external = <<>> => cache' = cache]_vars

C19_Witness ==
    /\ Len(resolved) = 3
    /\ resolved[1].source = None /\ resolved[2].source = None
    /\ resolved[1].firstgid = resolved[2].firstgid
    /\ resolved[1].inst # resolved[2].inst
    /\ resolved[3].source = "a.tsx"
    /\ resolved[3].elem = 3
    /\ parse_count["a.tsx"] = 1
    /\ Len(cache) = 1
    /\ cache[1].value.inst = resolved[3].inst

(***************************************************************************)
(* MaxThreads threads call _parse_external_tile_set, each on one of the    *)
(* Element objects, against an empty cache.                                *)
(***************************************************************************)
InitThreads ==
    /\ threads \in [1..MaxThreads -> {ThreadAt(elem) : elem \in SharedElements}]
    /\ MapIdle
    /\ ColorIdle
    /\ CsvIdle
    /\ B64Idle
    /\ PropIdle
    /\ LayerIdle

ThreadStep(t) ==
    /\ CacheLookup(t) \/ CacheCall(t) \/ CacheStore(t)
    /\ UNCHANGED <<next_elem, resolved, tile_sets, found,
                   tile_set_element_list, colorVars, csvVars, b64Vars,
                   propVars, layerVars>>

NextThreads == \E t \in 1..MaxThreads : ThreadStep(t)

SpecThreads == InitThreads /\ [][NextThreads]_vars

\* C16: when two calls for the same tile set file run at the same time
\* against an empty cache, the file is parsed at most once and both calls
\* return the same TileSet object, in every interleaving.
C16_ParsedOnceUnderConcurrency ==
    \A t, u \in 1..Len(threads) :
        (t # u /\ threads[t].source = threads[u].source)
        => /\ parse_count[threads[t].source] <= 1
           /\ (threads[t].pc = "done" /\ threads[u].pc = "done")
              => threads[t].inst = threads[u].inst

====
